---- MODULE Spec2Model ----
(***************************************************************************)
(* Session visibility and sharing of the shared chat-session store:        *)
(* the relational store (projects, sessions, session_shares, activity_log) *)
(* and the HTTP handlers that read and change it.  Every handler runs to   *)
(* completion without awaiting (the store driver is synchronous), so each  *)
(* handler is one atomic action.                                           *)
(***************************************************************************)
EXTENDS Integers, Sequences, FiniteSets, TLC

\* ------------------------------------------------------------- bounds
NumUsers == 2
NumSessions == 2
NumTokens == 2
MaxProjects == 1

\* ------------------------------------------------------------- values
\* SQL NULL / JS null in an integer-valued place (ids, tokens).
NULL == 0
\* SQL NULL / JS null in a text-valued place (visibility, permission).
Null == "NULL"

\* users.id of the registered, active users (the identity store is a leaf).
Users == 1..NumUsers
\* A username no active user row carries.
UnknownUser == NumUsers + 1
\* sessions.id values a client may send.
SessionIds == 1..NumSessions
\* Values crypto.randomBytes(32).toString('hex') can return.
Tokens == 1..NumTokens

\* CHECK(visibility IN ('private', 'public', 'shared'))
ValidVisibility == {"private", "public", "shared"}
\* What a request body may carry as visibility: a valid value, a value the
\* CHECK constraint rejects, or JSON null.
VisibilityInputs == ValidVisibility \cup {"bogus", Null}
\* CHECK(permission IN ('view', 'comment'))
ValidPermission == {"view", "comment"}
PermissionInputs == ValidPermission \cup {"bogus"}

VARIABLES
    projects,       \* projects table: sequence of rows, id = position
    sessions,       \* sessions table: id -> row, for the ids that have a row
    session_shares, \* session_shares table: set of rows
    activity_log,   \* the rows the latest request inserted into activity_log
                    \* (no handler reads the table: earlier rows are not kept)
    issued,         \* history: the tokens generateShareToken has returned and a
                    \* statement has stored (a value drawn for a statement that
                    \* failed was never stored or sent and is not counted)
    revoked,        \* history: the tokens a change to 'private' has cleared
    monitor,        \* history: per session, its progress through setVisibility
                    \* public -> private -> public
    resp,           \* the response of the last handler that ran
    messages,       \* messages table: sequence of rows in rowid order
    message_count,  \* sessions.message_count, per session id
    last_message_at \* sessions.last_message_at, per session id

\* The message store: the messages table and the two sessions columns its
\* triggers maintain.
messageVars == <<messages, message_count, last_message_at>>

vars == <<projects, sessions, session_shares, activity_log, issued, revoked,
          monitor, resp, messages, message_count, last_message_at>>

\* ------------------------------------------------------------ SQL helpers
\* a = b in SQL: not true when either side is NULL.
SqlEq(a, b, nul) == a # nul /\ b # nul /\ a = b
\* a != b in SQL: not true when either side is NULL.
SqlNe(a, b, nul) == a # nul /\ b # nul /\ a # b

\* The CHECK constraint on sessions.visibility: violated only when the
\* expression is false; NULL IN (...) is NULL, which passes.
VisibilityCheckPasses(v) == v = Null \/ v \in ValidVisibility

\* share_token values stored in rows other than `except`.
StoredTokens(except) ==
    {sessions[s].share_token : s \in DOMAIN sessions \ {except}} \ {NULL}

\* ------------------------------------------------------------ cloud-db.js
\* generateShareToken as it would be with too little entropy: a value
\* returned before may be returned again.
generateShareToken_MayRepeat(fresh) == Tokens

\* generateShareToken: the values a call may return.  With fresh = FALSE
\* any value may come back, one returned before included.  With fresh = TRUE
\* the generator is taken never to repeat a value (256 random bits): a call
\* returns a value no row has held before, and, the values being
\* interchangeable, the least of them.
generateShareToken(fresh) ==
    IF ~fresh THEN Tokens
    ELSE {t \in Tokens \ issued : \A u \in Tokens \ issued : t <= u}

\* const shareToken = visibility !== 'private' ? generateShareToken() : null
\* The values the call made here, if one is made, may return.
TokenChoices(fresh, visibility) ==
    IF visibility # "private" THEN generateShareToken(fresh) ELSE {NULL}

NoProject == [found |-> FALSE, id |-> NULL, owner_id |-> NULL, user_role |-> Null]

\* projectDb.getProject.  project_collaborators has no writer, so the join
\* never matches; the 'viewer' floor of a public project is below what any
\* modelled handler accepts and project visibility is not kept.
getProject(projectId, userId) ==
    IF projectId \in DOMAIN projects
    THEN [found |-> TRUE, id |-> projectId,
          owner_id |-> projects[projectId].owner_id,
          user_role |-> IF SqlEq(projects[projectId].owner_id, userId, NULL)
                        THEN "owner" ELSE Null]
    ELSE NoProject

NoSession == [found |-> FALSE, id |-> NULL, project_id |-> NULL, owner_id |-> NULL,
              visibility |-> Null, share_token |-> NULL, user_permission |-> Null]

\* LEFT JOIN session_shares ss ON s.id = ss.session_id AND ss.shared_with_user_id = ?
SharesFor(sessionId, userId) ==
    {r \in session_shares : /\ r.session_id = sessionId
                            /\ SqlEq(r.shared_with_user_id, userId, NULL)}

\* The CASE expression as it would be with the visibility floor tested
\* first.
UserPermission_FloorFirst(sessionId, userId) ==
    LET s == sessions[sessionId]
        ss == SharesFor(sessionId, userId)
    IN  IF SqlEq(s.visibility, "public", Null) THEN "view"
        ELSE IF SqlEq(s.owner_id, userId, NULL) THEN "owner"
        ELSE IF ss # {} THEN (CHOOSE r \in ss : TRUE).permission
        ELSE Null

\* The CASE expression as it would be with the visibility floor tested
\* before the explicit grant.
UserPermission_FloorBeforeGrant(sessionId, userId) ==
    LET s == sessions[sessionId]
        ss == SharesFor(sessionId, userId)
    IN  IF SqlEq(s.owner_id, userId, NULL) THEN "owner"
        ELSE IF SqlEq(s.visibility, "public", Null) THEN "view"
        ELSE IF ss # {} THEN (CHOOSE r \in ss : TRUE).permission
        ELSE Null

\* The CASE expression as it would be with the public floor given to
\* signed-in callers only.
UserPermission_NoAnonymousFloor(sessionId, userId) ==
    LET s == sessions[sessionId]
        ss == SharesFor(sessionId, userId)
    IN  IF SqlEq(s.owner_id, userId, NULL) THEN "owner"
        ELSE IF ss # {} THEN (CHOOSE r \in ss : TRUE).permission
        ELSE IF SqlEq(s.visibility, "public", Null) /\ userId # NULL THEN "view"
        ELSE Null

\* The CASE expression that computes user_permission.
UserPermission(sessionId, userId) ==
    LET s == sessions[sessionId]
        ss == SharesFor(sessionId, userId)
    IN  IF SqlEq(s.owner_id, userId, NULL) THEN "owner"
        ELSE IF ss # {} THEN (CHOOSE r \in ss : TRUE).permission
        ELSE IF SqlEq(s.visibility, "public", Null) THEN "view"
        ELSE Null

\* sessionDb.getSession: the row with its user_permission, whatever that
\* permission is (the query has no WHERE on it); no row for an unknown id.
getSession(sessionId, userId) ==
    IF sessionId \in DOMAIN sessions
    THEN [found |-> TRUE, id |-> sessionId,
          project_id |-> sessions[sessionId].project_id,
          owner_id |-> sessions[sessionId].owner_id,
          visibility |-> sessions[sessionId].visibility,
          share_token |-> sessions[sessionId].share_token,
          user_permission |-> UserPermission(sessionId, userId)]
    ELSE NoSession

\* The effective permission of a caller on a session: getSession's
\* user_permission, NULL when there is no row.
resolve(sessionId, userId) == getSession(sessionId, userId).user_permission

\* WHERE s.share_token = ? AND s.visibility != 'private'
TokenMatches(shareToken) ==
    {s \in DOMAIN sessions : /\ SqlEq(sessions[s].share_token, shareToken, NULL)
                             /\ SqlNe(sessions[s].visibility, "private", Null)}

\* sessionDb.getSessionByShareToken
getSessionByShareToken(shareToken) ==
    IF TokenMatches(shareToken) = {} THEN NoSession
    ELSE LET s == CHOOSE x \in TokenMatches(shareToken) : TRUE
         IN  [found |-> TRUE, id |-> s,
              project_id |-> sessions[s].project_id,
              owner_id |-> sessions[s].owner_id,
              visibility |-> sessions[s].visibility,
              share_token |-> sessions[s].share_token,
              user_permission |-> Null]

\* getUserByUsername as it would be if a username without a row fell back to
\* the first user.
getUserByUsername_Fallback(username) == IF username \in Users THEN username ELSE 1

\* userDb.getUserByUsername: usernames are modelled by the id of the user
\* that carries them; every user of Users is active.
getUserByUsername(username) == IF username \in Users THEN username ELSE NULL

\* logActivity as it would be if it stored no user_id with the entry.
logActivity_Anonymous(userId, action, resourceId, metadata) ==
    \E fails \in BOOLEAN :
        activity_log' = IF fails THEN <<>>
                        ELSE <<[user_id |-> NULL, action |-> action,
                                resource_id |-> resourceId, metadata |-> metadata]>>

\* activityDb.logActivity: the rows the call inserts; none when the insert
\* throws (the catch only prints).
logActivity(userId, action, resourceId, metadata) ==
    \E fails \in BOOLEAN :
        activity_log' = IF fails THEN <<>>
                        ELSE <<[user_id |-> userId, action |-> action,
                                resource_id |-> resourceId, metadata |-> metadata]>>

\* sessionDb.createSession with `generated` the value generateShareToken
\* returns when it is called.  The INSERT throws on a duplicate id, on a
\* visibility the CHECK rejects and on a share_token another row holds.
createSession(sessionId, projectId, ownerId, visibility, generated) ==
    LET shareToken == IF visibility # "private" THEN generated ELSE NULL
        row == [project_id |-> projectId, owner_id |-> ownerId,
                visibility |-> visibility, share_token |-> shareToken]
    IN  [throws |-> \/ sessionId \in DOMAIN sessions
                    \/ ~VisibilityCheckPasses(visibility)
                    \/ (shareToken # NULL /\ shareToken \in StoredTokens(NULL)),
         shareToken |-> shareToken,
         sessions |-> [x \in DOMAIN sessions \cup {sessionId} |->
                          IF x = sessionId THEN row ELSE sessions[x]]]

\* updateSessionVisibility as it would be if the token were derived from
\* the session id instead of drawn.
updateSessionVisibility_TokenFromId(sessionId, visibility, ownerId, generated) ==
    LET shareToken == IF visibility # "private" THEN sessionId ELSE NULL
        hit == /\ sessionId \in DOMAIN sessions
               /\ SqlEq(sessions[sessionId].owner_id, ownerId, NULL)
    IN  [throws |-> hit /\ shareToken # NULL /\ shareToken \in StoredTokens(sessionId),
         changes |-> IF hit THEN 1 ELSE 0,
         shareToken |-> shareToken,
         sessions |-> IF hit
                      THEN [sessions EXCEPT ![sessionId].visibility = visibility,
                                            ![sessionId].share_token = shareToken]
                      ELSE sessions]

\* updateSessionVisibility as it would be if a change to 'private' left the
\* stored share_token in place.
updateSessionVisibility_KeepsToken(sessionId, visibility, ownerId, generated) ==
    LET hit == /\ sessionId \in DOMAIN sessions
               /\ SqlEq(sessions[sessionId].owner_id, ownerId, NULL)
        shareToken == IF visibility # "private" THEN generated
                      ELSE IF hit THEN sessions[sessionId].share_token ELSE NULL
    IN  [throws |-> hit /\ shareToken # NULL /\ shareToken \in StoredTokens(sessionId),
         changes |-> IF hit THEN 1 ELSE 0,
         shareToken |-> shareToken,
         sessions |-> IF hit
                      THEN [sessions EXCEPT ![sessionId].visibility = visibility,
                                            ![sessionId].share_token = shareToken]
                      ELSE sessions]

\* updateSessionVisibility as it would be if the UPDATE wrote the visibility
\* column only and left share_token to a second statement that has not run.
updateSessionVisibility_VisibilityOnly(sessionId, visibility, ownerId, generated) ==
    LET shareToken == IF visibility # "private" THEN generated ELSE NULL
        hit == /\ sessionId \in DOMAIN sessions
               /\ SqlEq(sessions[sessionId].owner_id, ownerId, NULL)
    IN  [throws |-> hit /\ shareToken # NULL /\ shareToken \in StoredTokens(sessionId),
         changes |-> IF hit THEN 1 ELSE 0,
         shareToken |-> shareToken,
         sessions |-> IF hit
                      THEN [sessions EXCEPT ![sessionId].visibility = visibility]
                      ELSE sessions]

\* sessionDb.updateSessionVisibility with `generated` the value
\* generateShareToken returns when it is called.  The UPDATE throws when the
\* new share_token is held by another row; it changes the row whose id and
\* owner_id match.
updateSessionVisibility(sessionId, visibility, ownerId, generated) ==
    LET shareToken == IF visibility # "private" THEN generated ELSE NULL
        hit == /\ sessionId \in DOMAIN sessions
               /\ SqlEq(sessions[sessionId].owner_id, ownerId, NULL)
    IN  [throws |-> hit /\ shareToken # NULL /\ shareToken \in StoredTokens(sessionId),
         changes |-> IF hit THEN 1 ELSE 0,
         shareToken |-> shareToken,
         sessions |-> IF hit
                      THEN [sessions EXCEPT ![sessionId].visibility = visibility,
                                            ![sessionId].share_token = shareToken]
                      ELSE sessions]

\* shareSession as it would be if the row of an earlier grant to the same
\* user were left in place.
shareSession_InsertOnly(sessionId, sharedWithUserId, sharedByUserId, permission) ==
    session_shares
    \cup {[session_id |-> sessionId, shared_with_user_id |-> sharedWithUserId,
            shared_by_user_id |-> sharedByUserId, permission |-> permission]}

\* sessionDb.shareSession: INSERT OR REPLACE drops the row that holds the
\* same (session_id, shared_with_user_id) and inserts the new one.
shareSession(sessionId, sharedWithUserId, sharedByUserId, permission) ==
    (session_shares \ {r \in session_shares :
                          /\ r.session_id = sessionId
                          /\ r.shared_with_user_id = sharedWithUserId})
    \cup {[session_id |-> sessionId, shared_with_user_id |-> sharedWithUserId,
            shared_by_user_id |-> sharedByUserId, permission |-> permission]}

\* SELECT s.* ...: the columns of a sessions row a listing returns, with the
\* user_permission column the query computes (NULL where it computes none).
Entry(s, perm) ==
    [id |-> s, project_id |-> sessions[s].project_id,
     owner_id |-> sessions[s].owner_id, visibility |-> sessions[s].visibility,
     share_token |-> sessions[s].share_token, user_permission |-> perm]

\* The CASE expression of getProjectSessions.
ProjectSessionPermission(s, userId) ==
    LET ss == SharesFor(s, userId)
    IN  IF SqlEq(sessions[s].owner_id, userId, NULL) THEN "owner"
        ELSE IF ss # {} THEN (CHOOSE r \in ss : TRUE).permission
        ELSE IF SqlEq(sessions[s].visibility, "public", Null) THEN "view"
        ELSE Null

\* getProjectSessions as it would be without the explicitly-shared clause
\* in its WHERE.
getProjectSessions_OwnerOrPublic(projectId, userId) ==
    {Entry(s, ProjectSessionPermission(s, userId)) :
        s \in {x \in DOMAIN sessions :
                  /\ sessions[x].project_id = projectId
                  /\ \/ SqlEq(sessions[x].owner_id, userId, NULL)
                     \/ SqlEq(sessions[x].visibility, "public", Null)}}

\* sessionDb.getProjectSessions, for a LIMIT that covers the table:
\* WHERE s.project_id = ? AND (s.owner_id = ? OR s.visibility = 'public'
\*                             OR ss.shared_with_user_id = ?)
getProjectSessions(projectId, userId) ==
    {Entry(s, ProjectSessionPermission(s, userId)) :
        s \in {x \in DOMAIN sessions :
                  /\ sessions[x].project_id = projectId
                  /\ \/ SqlEq(sessions[x].owner_id, userId, NULL)
                     \/ SqlEq(sessions[x].visibility, "public", Null)
                     \/ SharesFor(x, userId) # {}}}

\* getPublicSessions as it would be if its WHERE excluded the private
\* sessions instead of selecting the public ones.
getPublicSessions_NotPrivate ==
    {Entry(s, Null) :
        s \in {x \in DOMAIN sessions : SqlNe(sessions[x].visibility, "private", Null)}}

\* sessionDb.getPublicSessions, for a LIMIT that covers the table:
\* SELECT s.*, ... WHERE s.visibility = 'public'
getPublicSessions ==
    {Entry(s, Null) :
        s \in {x \in DOMAIN sessions : SqlEq(sessions[x].visibility, "public", Null)}}

\* The identifier db inside the module sharing.js (the first of the four
\* modules the source file holds, each with its own imports): it imports
\* sessionDb, projectDb, userDb, messageDb and activityDb from cloud-db.js
\* and declares no db (the const db of cloud-db.js is local to that module),
\* so reading it raises a ReferenceError.
dbInSharing == FALSE

\* sessionDb.removeSessionShare as sharing.js installs it (cloud-db.js
\* exports none): db.prepare(...) is evaluated first.
removeSessionShare(sessionId, userId) ==
    LET gone == {r \in session_shares : /\ r.session_id = sessionId
                                         /\ SqlEq(r.shared_with_user_id, userId, NULL)}
    IN  [throws |-> ~dbInSharing,
         changes |-> Cardinality(gone),
         session_shares |-> session_shares \ gone]

\* sessionDb.getUserSharedSessions as sharing.js installs it:
\* sessionDb.db?.prepare(...) is undefined (sessionDb has no db), so the
\* right operand db.prepare(...) is evaluated.
getUserSharedSessions(userId) ==
    [throws |-> ~dbInSharing,
     rows |-> {Entry(r.session_id, r.permission) :
                  r \in {x \in session_shares :
                            SqlEq(x.shared_with_user_id, userId, NULL)}}]

\* sessionDb.getSessionShares as sharing.js installs it: db.prepare(...) is
\* evaluated first.
getSessionShares(sessionId) ==
    [throws |-> ~dbInSharing,
     rows |-> {r \in session_shares : r.session_id = sessionId}]

\* The identifier db inside cloud-index.js: not among its imports from
\* cloud-db.js and not declared, so reading it raises a ReferenceError.
dbInIndex == FALSE

\* The response of the handler that ran last: the operation, the status and
\* the body fields sent back, with the session and the integer argument
\* (target user or presented token) a successful answer is about; `list` holds the entries of a listing
\* response, and `prior` is history: the permission the share row a grant
\* replaced had held.
Response(op, sid, arg, status, visibility, shareToken, perm) ==
    [op |-> op, sid |-> sid, arg |-> arg, status |-> status,
     visibility |-> visibility, shareToken |-> shareToken, user_permission |-> perm,
     list |-> {}, prior |-> Null]

\* A request that ends in an error status before it changes anything: the
\* body carries the handler's error message only.
Rejected(op, status) ==
    /\ resp' = Response(op, NULL, NULL, status, Null, NULL, Null)
    /\ activity_log' = <<>>
    /\ UNCHANGED <<messageVars, projects, sessions, session_shares, revoked, monitor>>

\* The history variables are kept under the generator that never repeats.
Track(fresh, new, old) == IF fresh THEN new ELSE old

\* ------------------------------------------------------------------ Init
Init ==
    /\ projects = <<>>
    /\ sessions = <<>>
    /\ session_shares = {}
    /\ activity_log = <<>>
    /\ issued = {}
    /\ revoked = {}
    /\ monitor = [s \in SessionIds |-> [phase |-> 0, first |-> NULL, last |-> NULL]]
    /\ resp = Response("none", NULL, NULL, 0, Null, NULL, Null)
    /\ messages = <<>>
    /\ message_count = [s \in SessionIds |-> 0]
    /\ last_message_at = [s \in SessionIds |-> NULL]

\* The progress of a session through the successful calls setVisibility
\* public -> private -> public, made in a row: phase 1 after a change to
\* public (first = the token it returned), phase 2 after the change to
\* private that follows it, phase 3 after the change to public that follows
\* that one (last = the token this third call returned).
MonitorStep(m, visibility, shareToken) ==
    IF visibility = "public"
    THEN (IF m.phase = 2
          THEN [phase |-> 3, first |-> m.first, last |-> shareToken]
          ELSE [phase |-> 1, first |-> shareToken, last |-> NULL])
    ELSE IF visibility = "private" /\ m.phase = 1
    THEN [phase |-> 2, first |-> m.first, last |-> NULL]
    ELSE IF visibility = "private" /\ m.phase = 3
    THEN [phase |-> 2, first |-> m.last, last |-> NULL]
    ELSE [phase |-> 0, first |-> NULL, last |-> NULL]

\* --------------------------------------------------------- cloud-index.js
\* POST /api/projects/create
CreateProject(userId) ==
    /\ Len(projects) < MaxProjects
    /\ projects' = Append(projects, [owner_id |-> userId])
    /\ logActivity(userId, "create_project", Len(projects) + 1, Null)
    /\ resp' = Response("createProject", NULL, NULL, 200, Null, NULL, Null)
    /\ UNCHANGED <<messageVars, sessions, session_shares, issued, revoked, monitor>>

\* POST /api/projects/:projectId/sessions
CreateSession(fresh, userId, projectId, sessionId, visibility) ==
    LET project == getProject(projectId, userId)
    IN  IF ~project.found \/ project.user_role \notin {"owner", "contributor"}
        THEN Rejected("createSession", 403) /\ UNCHANGED issued
        ELSE \E generated \in TokenChoices(fresh, visibility) :
             LET made == createSession(sessionId, projectId, userId, visibility,
                                       generated)
                 drawn == Track(fresh, issued \cup ({made.shareToken} \ {NULL}), issued)
             IN  IF made.throws
                 THEN Rejected("createSession", 500) /\ UNCHANGED issued
                 ELSE /\ sessions' = made.sessions
                      /\ issued' = drawn
                      /\ logActivity(userId, "create_session", sessionId,
                                     [visibility |-> visibility])
                      /\ resp' = Response("createSession", sessionId, NULL, 200,
                                          visibility, made.shareToken, Null)
                      /\ UNCHANGED <<messageVars, projects, session_shares, revoked, monitor>>

\* GET /api/projects/:projectId/sessions/:sessionId/messages
GetMessages(userId, sessionId) ==
    LET session == getSession(sessionId, userId)
    IN  IF ~session.found
        THEN Rejected("getMessages", 404) /\ UNCHANGED issued
        ELSE /\ logActivity(userId, "view_session", sessionId, Null)
             /\ resp' = Response("getMessages", sessionId, NULL, 200,
                                 session.visibility, NULL, session.user_permission)
             /\ UNCHANGED <<messageVars, projects, sessions, session_shares, issued, revoked,
                            monitor>>

\* DELETE /api/sessions/:sessionId (ON DELETE CASCADE removes the shares and
\* the messages of the session with its row)
DeleteSession(userId, sessionId) ==
    LET session == getSession(sessionId, userId)
        hit == sessionId \in DOMAIN sessions
               /\ SqlEq(sessions[sessionId].owner_id, userId, NULL)
    IN  IF ~session.found \/ session.user_permission # "owner"
        THEN Rejected("deleteSession", 403) /\ UNCHANGED issued
        ELSE IF ~dbInIndex
        THEN Rejected("deleteSession", 500) /\ UNCHANGED issued
        ELSE IF ~hit
        THEN Rejected("deleteSession", 404) /\ UNCHANGED issued
        ELSE /\ sessions' = [x \in DOMAIN sessions \ {sessionId} |-> sessions[x]]
             /\ session_shares' = {r \in session_shares : r.session_id # sessionId}
             /\ logActivity(userId, "delete_session", sessionId, Null)
             /\ messages' = SelectSeq(messages, LAMBDA m : m.session_id # sessionId)
             /\ message_count' = [message_count EXCEPT ![sessionId] = 0]
             /\ last_message_at' = [last_message_at EXCEPT ![sessionId] = NULL]
             /\ resp' = Response("deleteSession", sessionId, NULL, 200, Null, NULL, Null)
             /\ UNCHANGED <<projects, issued, revoked, monitor>>

\* A listing answered with its entries; nothing is written.
Listed(op, entries) ==
    /\ resp' = [Response(op, NULL, NULL, 200, Null, NULL, Null) EXCEPT !.list = entries]
    /\ activity_log' = <<>>
    /\ UNCHANGED <<messageVars, projects, sessions, session_shares, issued, revoked, monitor>>

\* GET /api/projects/:projectId/sessions
ListProjectSessions(userId, projectId) ==
    LET project == getProject(projectId, userId)
    IN  IF ~project.found
        THEN Rejected("listProjectSessions", 404) /\ UNCHANGED issued
        ELSE Listed("listProjectSessions", getProjectSessions(projectId, userId))

\* ------------------------------------------------------------- sharing.js
\* GET /public/sessions
ListPublicSessions ==
    /\ resp' = [Response("listPublicSessions", NULL, NULL, 200, Null, NULL, Null)
                EXCEPT !.list = getPublicSessions]
    /\ activity_log' = <<>>
    /\ UNCHANGED <<messageVars, projects, sessions, session_shares, issued, revoked, monitor>>

\* GET /shared-with-me
ListSharedWithMe(userId) ==
    LET result == getUserSharedSessions(userId)
    IN  IF result.throws
        THEN Rejected("listSharedWithMe", 500) /\ UNCHANGED issued
        ELSE Listed("listSharedWithMe", result.rows)

\* GET /sessions/:sessionId/sharing
GetSharingInfo(userId, sessionId) ==
    LET session == getSession(sessionId, userId)
        shares == getSessionShares(sessionId)
    IN  IF ~session.found
        THEN Rejected("getSharingInfo", 404) /\ UNCHANGED issued
        ELSE IF session.user_permission # "owner"
        THEN Rejected("getSharingInfo", 403) /\ UNCHANGED issued
        ELSE IF shares.throws
        THEN Rejected("getSharingInfo", 500) /\ UNCHANGED issued
        ELSE /\ resp' = [Response("getSharingInfo", sessionId, NULL, 200,
                                  session.visibility, session.share_token,
                                  session.user_permission)
                         EXCEPT !.list = shares.rows]
             /\ activity_log' = <<>>
             /\ UNCHANGED <<messageVars, projects, sessions, session_shares, issued, revoked,
                            monitor>>

\* GET /shared/:shareToken as it would be if logActivity let the error of a
\* failed insert reach the handler's catch.
GetSharedSession_AuditThrows(shareToken) ==
    LET session == getSessionByShareToken(shareToken)
    IN  IF ~session.found
        THEN Rejected("getSharedSession", 404) /\ UNCHANGED issued
        ELSE \E fails \in BOOLEAN :
             IF fails
             THEN Rejected("getSharedSession", 500) /\ UNCHANGED issued
             ELSE /\ activity_log' = <<[user_id |-> NULL, action |-> "view_shared_session",
                                        resource_id |-> session.id,
                                        metadata |-> [shareToken |-> shareToken]]>>
                  /\ resp' = Response("getSharedSession", session.id, shareToken, 200,
                                      session.visibility, NULL, Null)
                  /\ UNCHANGED <<messageVars, projects, sessions, session_shares, issued,
                                 revoked, monitor>>

\* GET /shared/:shareToken
GetSharedSession(shareToken) ==
    LET session == getSessionByShareToken(shareToken)
    IN  IF ~session.found
        THEN Rejected("getSharedSession", 404) /\ UNCHANGED issued
        ELSE /\ logActivity(NULL, "view_shared_session", session.id,
                            [shareToken |-> shareToken])
             /\ resp' = Response("getSharedSession", session.id, shareToken, 200,
                                 session.visibility, NULL, Null)
             /\ UNCHANGED <<messageVars, projects, sessions, session_shares, issued, revoked,
                            monitor>>

\* PUT /sessions/:sessionId/visibility
SetVisibility(fresh, userId, sessionId, visibility) ==
    LET session == getSession(sessionId, userId)
    IN  IF visibility \notin {"private", "public", "shared"}
        THEN Rejected("setVisibility", 400) /\ UNCHANGED issued
        ELSE IF ~session.found \/ session.user_permission # "owner"
        THEN Rejected("setVisibility", 403) /\ UNCHANGED issued
        ELSE \E generated \in TokenChoices(fresh, visibility) :
             LET result == updateSessionVisibility(sessionId, visibility, userId,
                                                   generated)
                 drawn == Track(fresh, issued \cup ({result.shareToken} \ {NULL}),
                                issued)
             IN  IF result.throws
                 THEN Rejected("setVisibility", 500) /\ UNCHANGED issued
                 ELSE IF result.changes = 0
                 THEN Rejected("setVisibility", 404) /\ UNCHANGED issued
                 ELSE /\ sessions' = result.sessions
                      /\ issued' = drawn
                      /\ revoked' = Track(fresh,
                                          IF visibility = "private"
                                          THEN revoked \cup ({session.share_token} \ {NULL})
                                          ELSE revoked,
                                          revoked)
                      /\ monitor' = Track(fresh,
                                          [monitor EXCEPT ![sessionId] =
                                              MonitorStep(@, visibility, result.shareToken)],
                                          monitor)
                      /\ logActivity(userId, "update_session_visibility", sessionId,
                                     [oldVisibility |-> session.visibility,
                                      newVisibility |-> visibility])
                      /\ resp' = Response("setVisibility", sessionId, NULL, 200,
                                          visibility, result.shareToken, Null)
                      /\ UNCHANGED <<messageVars, projects, session_shares>>

\* POST /sessions/:sessionId/share as it would be without its test that
\* the target user is not the caller.
ShareSession_NoSelfCheck(userId, sessionId, username, permission) ==
    LET session == getSession(sessionId, userId)
        targetUser == getUserByUsername(username)
    IN  IF permission \notin {"view", "comment"}
        THEN Rejected("shareSession", 400) /\ UNCHANGED issued
        ELSE IF ~session.found \/ session.user_permission # "owner"
        THEN Rejected("shareSession", 403) /\ UNCHANGED issued
        ELSE IF targetUser = NULL
        THEN Rejected("shareSession", 404) /\ UNCHANGED issued
        ELSE /\ session_shares' = shareSession(sessionId, targetUser, userId, permission)
             /\ logActivity(userId, "share_session", sessionId,
                            [sharedWith |-> username, permission |-> permission])
             /\ resp' = [Response("shareSession", sessionId, targetUser, 200, Null,
                                  NULL, permission)
                         EXCEPT !.prior = IF SharesFor(sessionId, targetUser) = {}
                                          THEN Null
                                          ELSE (CHOOSE r \in SharesFor(sessionId,
                                                                       targetUser) :
                                                   TRUE).permission]
             /\ UNCHANGED <<messageVars, projects, sessions, issued, revoked, monitor>>

\* POST /sessions/:sessionId/share as it would be without its ownership
\* test.
ShareSession_NoOwnerCheck(userId, sessionId, username, permission) ==
    LET session == getSession(sessionId, userId)
        targetUser == getUserByUsername(username)
    IN  IF permission \notin {"view", "comment"}
        THEN Rejected("shareSession", 400) /\ UNCHANGED issued
        ELSE IF ~session.found
        THEN Rejected("shareSession", 403) /\ UNCHANGED issued
        ELSE IF targetUser = NULL
        THEN Rejected("shareSession", 404) /\ UNCHANGED issued
        ELSE IF targetUser = userId
        THEN Rejected("shareSession", 400) /\ UNCHANGED issued
        ELSE /\ session_shares' = shareSession(sessionId, targetUser, userId, permission)
             /\ logActivity(userId, "share_session", sessionId,
                            [sharedWith |-> username, permission |-> permission])
             /\ resp' = Response("shareSession", sessionId, targetUser, 200, Null, NULL,
                                 permission)
             /\ UNCHANGED <<messageVars, projects, sessions, issued, revoked, monitor>>

\* POST /sessions/:sessionId/share
ShareSession(userId, sessionId, username, permission) ==
    LET session == getSession(sessionId, userId)
        targetUser == getUserByUsername(username)
    IN  IF permission \notin {"view", "comment"}
        THEN Rejected("shareSession", 400) /\ UNCHANGED issued
        ELSE IF ~session.found \/ session.user_permission # "owner"
        THEN Rejected("shareSession", 403) /\ UNCHANGED issued
        ELSE IF targetUser = NULL
        THEN Rejected("shareSession", 404) /\ UNCHANGED issued
        ELSE IF targetUser = userId
        THEN Rejected("shareSession", 400) /\ UNCHANGED issued
        ELSE /\ session_shares' = shareSession(sessionId, targetUser, userId, permission)
             /\ logActivity(userId, "share_session", sessionId,
                            [sharedWith |-> username, permission |-> permission])
             /\ resp' = [Response("shareSession", sessionId, targetUser, 200, Null,
                                  NULL, permission)
                         EXCEPT !.prior = IF SharesFor(sessionId, targetUser) = {}
                                          THEN Null
                                          ELSE (CHOOSE r \in SharesFor(sessionId,
                                                                       targetUser) :
                                                   TRUE).permission]
             /\ UNCHANGED <<messageVars, projects, sessions, issued, revoked, monitor>>

\* DELETE /sessions/:sessionId/share/:userId
RevokeShare(userId, sessionId, targetUserId) ==
    LET session == getSession(sessionId, userId)
        result == removeSessionShare(sessionId, targetUserId)
    IN  IF ~session.found \/ session.user_permission # "owner"
        THEN Rejected("revokeShare", 403) /\ UNCHANGED issued
        ELSE IF result.throws
        THEN Rejected("revokeShare", 500) /\ UNCHANGED issued
        ELSE IF result.changes = 0
        THEN Rejected("revokeShare", 404) /\ UNCHANGED issued
        ELSE /\ session_shares' = result.session_shares
             /\ logActivity(userId, "remove_session_share", sessionId,
                            [removedUserId |-> targetUserId])
             /\ resp' = Response("revokeShare", sessionId, targetUserId, 200, Null, NULL,
                                 Null)
             /\ UNCHANGED <<messageVars, projects, sessions, issued, revoked, monitor>>

\* ------------------------------------------------------------------ Next
\* The handlers, with the token generator as `fresh` says.
NextOf(fresh) ==
    \/ \E u \in Users : CreateProject(u)
    \/ \E u \in Users, p \in 1..MaxProjects, s \in SessionIds, v \in VisibilityInputs :
          CreateSession(fresh, u, p, s, v)
    \/ \E u \in Users, s \in SessionIds : GetMessages(u, s)
    \/ \E u \in Users, s \in SessionIds : DeleteSession(u, s)
    \/ \E t \in Tokens : GetSharedSession(t)
    \/ \E u \in Users, s \in SessionIds, v \in VisibilityInputs :
          SetVisibility(fresh, u, s, v)
    \/ \E u \in Users, s \in SessionIds, n \in Users \cup {UnknownUser},
          q \in PermissionInputs : ShareSession(u, s, n, q)
    \/ \E u \in Users, s \in SessionIds, n \in Users : RevokeShare(u, s, n)
    \/ \E u \in Users, p \in 1..MaxProjects : ListProjectSessions(u, p)
    \/ ListPublicSessions
    \/ \E u \in Users : ListSharedWithMe(u)
    \/ \E u \in Users, s \in SessionIds : GetSharingInfo(u, s)

Next == NextOf(FALSE)
Spec == Init /\ [][Next]_vars

NextFresh == NextOf(TRUE)
SpecFresh == Init /\ [][NextFresh]_vars

\* ------------------------------------------------------------ pagination
\* The limit and offset query values of the listing routes are strings,
\* modelled as sequences of characters; Absent is the value of a parameter
\* the query does not carry.
MaxLimit == 2
Absent == <<"undefined">>
DigitChars == <<"0", "1", "2", "3", "4", "5", "6", "7", "8", "9">>
DecimalDigits == {DigitChars[i] : i \in 1..10}
DigitValue(c) == (CHOOSE i \in 1..10 : DigitChars[i] = c) - 1
LimitInputs ==
    {Absent, <<"2", "x">>, <<"-", "1">>, <<"x">>}
        \cup {<<DigitChars[n + 1]>> : n \in 0..MaxLimit}
OffsetInputs == {Absent, <<"0">>, <<"1">>, <<"-", "1">>, <<"x">>}

\* const { limit = 20, offset = 0 } = req.query: the default applies to a
\* parameter that is absent only.
DefaultLimit == <<"2", "0">>
DefaultOffset == <<"0">>
WithDefault(value, default) == IF value = Absent THEN default ELSE value

\* The longest prefix of str made of decimal digits.
RECURSIVE LeadingDigits(_)
LeadingDigits(str) ==
    IF str = <<>> \/ Head(str) \notin DecimalDigits
    THEN <<>>
    ELSE <<Head(str)>> \o LeadingDigits(Tail(str))

RECURSIVE DecimalValue(_)
DecimalValue(digits) ==
    IF digits = <<>>
    THEN 0
    ELSE 10 * DecimalValue(SubSeq(digits, 1, Len(digits) - 1))
         + DigitValue(digits[Len(digits)])

\* parseInt(string): an optional sign, then the leading decimal digits;
\* what follows them is ignored; NaN when there is no digit.
parseInt(str) ==
    LET negative == str # <<>> /\ Head(str) = "-"
        digits == LeadingDigits(IF negative THEN Tail(str) ELSE str)
    IN  [nan |-> digits = <<>>,
         value |-> IF negative THEN 0 - DecimalValue(digits) ELSE DecimalValue(digits)]

\* LIMIT ? OFFSET ? over `total` selected rows: a negative LIMIT is no
\* limit, a negative OFFSET is none.
PageSize(total, limit, offset) ==
    LET skipped == IF offset < 0 THEN 0 ELSE offset
        left == IF total > skipped THEN total - skipped ELSE 0
    IN  IF limit < 0 \/ limit > left THEN left ELSE limit

\* The pages the statement can return from `rows`: ORDER BY s.updated_at
\* DESC, with updated_at (not modelled) placing the rows in any order.
Pages(rows, limit, offset) ==
    {page \in SUBSET rows :
        Cardinality(page) = PageSize(Cardinality(rows), limit, offset)}

\* hasMore as it would be if it compared the number of rows returned with
\* the limit by > instead of ===.
hasMore_Beyond(page, limit) == Cardinality(page) > limit

\* hasMore: sessions.length === parseInt(limit)
hasMore(page, limit) == Cardinality(page) = limit

\* The body of a listing response that carries a page: sessions and
\* pagination { limit, offset, hasMore }.
PageResponse(op, page, limit, offset) ==
    [op |-> op, sid |-> NULL, arg |-> NULL, status |-> 200, visibility |-> Null,
     shareToken |-> NULL, user_permission |-> Null, list |-> page, prior |-> Null,
     pagination |-> [limit |-> limit, offset |-> offset,
                     hasMore |-> hasMore(page, limit)]]

\* GET /public/sessions?limit=&offset= : binding NaN to LIMIT or OFFSET
\* makes the statement throw (NaN is bound as NULL).
ListPublicSessionsPage(limitQuery, offsetQuery) ==
    LET limit == parseInt(WithDefault(limitQuery, DefaultLimit))
        offset == parseInt(WithDefault(offsetQuery, DefaultOffset))
    IN  IF limit.nan \/ offset.nan
        THEN Rejected("listPublicSessions", 500) /\ UNCHANGED issued
        ELSE \E page \in Pages(getPublicSessions, limit.value, offset.value) :
                 /\ resp' = PageResponse("listPublicSessions", page,
                                         limit.value, offset.value)
                 /\ activity_log' = <<>>
                 /\ UNCHANGED <<messageVars, projects, sessions, session_shares,
                                issued, revoked, monitor>>

\* GET /api/projects/:projectId/sessions?limit=&offset=
ListProjectSessionsPage(userId, projectId, limitQuery, offsetQuery) ==
    LET project == getProject(projectId, userId)
        limit == parseInt(WithDefault(limitQuery, DefaultLimit))
        offset == parseInt(WithDefault(offsetQuery, DefaultOffset))
    IN  IF ~project.found
        THEN Rejected("listProjectSessions", 404) /\ UNCHANGED issued
        ELSE IF limit.nan \/ offset.nan
        THEN Rejected("listProjectSessions", 500) /\ UNCHANGED issued
        ELSE \E page \in Pages(getProjectSessions(projectId, userId),
                               limit.value, offset.value) :
                 /\ resp' = PageResponse("listProjectSessions", page,
                                         limit.value, offset.value)
                 /\ activity_log' = <<>>
                 /\ UNCHANGED <<messageVars, projects, sessions, session_shares,
                                issued, revoked, monitor>>

\* The listing routes with their query parameters, over the sessions the
\* project owners create.
NextPage ==
    \/ \E u \in Users : CreateProject(u)
    \/ \E u \in Users, p \in 1..MaxProjects, s \in SessionIds, v \in VisibilityInputs :
          CreateSession(FALSE, u, p, s, v)
    \/ \E l \in LimitInputs, o \in OffsetInputs : ListPublicSessionsPage(l, o)
    \/ \E u \in Users, p \in 1..MaxProjects, l \in LimitInputs, o \in OffsetInputs :
          ListProjectSessionsPage(u, p, l, o)

SpecPage == Init /\ [][NextPage]_vars

\* --------------------------------------------------------------- messages
MaxMessages == 3
MaxImport == 2
MaxTime == 2
\* The timestamps the messages of a session file carry.
Times == 1..MaxTime
\* timestamp DATETIME DEFAULT CURRENT_TIMESTAMP: the clock, read when a row
\* is inserted; it is modelled as ticking once with every row.
CurrentTimestamp == Len(messages) + 1
\* role and content of a request body; CHECK(role IN ('user', 'assistant'))
\* NOT NULL and content NOT NULL.
RoleInputs == {"user", "assistant", "system", Null}
ContentInputs == {"text", Null}

\* The message store as a value the statements below transform.
Store == [messages |-> messages, message_count |-> message_count,
          last_message_at |-> last_message_at]

\* The trigger as it would be if it set last_message_at only.
update_session_stats_on_message_insert_NoCount(store, new) ==
    [messages |-> store.messages,
     message_count |-> store.message_count,
     last_message_at |-> [store.last_message_at EXCEPT ![new.session_id] = new.timestamp]]

\* Trigger update_session_stats_on_message_insert, AFTER INSERT ON messages:
\* message_count = message_count + 1, last_message_at = NEW.timestamp.
update_session_stats_on_message_insert(store, new) ==
    [messages |-> store.messages,
     message_count |-> [store.message_count EXCEPT ![new.session_id] = @ + 1],
     last_message_at |-> [store.last_message_at EXCEPT ![new.session_id] = new.timestamp]]

\* INSERT INTO messages: the row is appended (AUTOINCREMENT id = position;
\* role, content and metadata are not kept) and the trigger runs in the same
\* statement.  `via` is history: the function that inserted the row.
InsertMessage(store, sessionId, messageIndex, timestamp, via) ==
    LET new == [session_id |-> sessionId, message_index |-> messageIndex,
                timestamp |-> timestamp, via |-> via]
    IN  update_session_stats_on_message_insert(
            [store EXCEPT !.messages = Append(@, new)], new)

\* The message_index values the rows of a session hold.
IndexesOf(store, sessionId) ==
    {store.messages[i].message_index :
        i \in {k \in 1..Len(store.messages) :
                  store.messages[k].session_id = sessionId}}

\* SELECT COALESCE(MAX(message_index), 0) ..., the next index as it would be
\* without the -1 and the + 1.
NextIndex_MaxOnly(store, sessionId) ==
    LET held == IndexesOf(store, sessionId)
    IN  IF held = {} THEN 0
        ELSE CHOOSE m \in held : \A n \in held : n <= m

\* SELECT COALESCE(MAX(message_index), -1) + 1 as next_index
\* FROM messages WHERE session_id = ?
NextIndex(store, sessionId) ==
    LET held == IndexesOf(store, sessionId)
    IN  IF held = {} THEN 0
        ELSE (CHOOSE m \in held : \A n \in held : n <= m) + 1

\* messageDb.addMessage: the two
\* statements run one after the other with nothing between them.  The
\* INSERT throws on a role the CHECK rejects, on a NULL role or content
\* and on a session_id without a sessions row (foreign key).
addMessage(sessionId, role, content) ==
    LET next_index == NextIndex(Store, sessionId)
    IN  [throws |-> \/ role \notin {"user", "assistant"}
                    \/ content = Null
                    \/ sessionId \notin DOMAIN sessions,
         messageIndex |-> next_index,
         store |-> InsertMessage(Store, sessionId, next_index, CurrentTimestamp,
                                 "addMessage")]

\* parseSessionFile: the messages of a session file, numbered from 0 in
\* file order, each with the timestamp its line carries.
parseSessionFile(stamps) ==
    [i \in 1..Len(stamps) |-> [messageIndex |-> i - 1, timestamp |-> stamps[i]]]

\* messageDb.bulkImportMessages: one INSERT per message, with the index
\* and the timestamp the message carries, in one transaction.
RECURSIVE bulkImportMessages(_, _, _)
bulkImportMessages(store, sessionId, msgs) ==
    IF msgs = <<>>
    THEN store
    ELSE bulkImportMessages(
             InsertMessage(store, sessionId, Head(msgs).messageIndex,
                           Head(msgs).timestamp, "bulkImportMessages"),
             sessionId, Tail(msgs))

\* The session files a migration run can find: the timestamps of up to
\* MaxImport messages.
SessionFiles == UNION {[1..n -> Times] : n \in 0..MaxImport}

\* POST /api/sessions/:sessionId/messages as it would be without its test
\* of user_permission.
AddMessage_NoPermissionCheck(userId, sessionId, role, content) ==
    LET session == getSession(sessionId, userId)
    IN  IF ~session.found
        THEN Rejected("addMessage", 404) /\ UNCHANGED issued
        ELSE LET message == addMessage(sessionId, role, content)
             IN  IF message.throws
                 THEN Rejected("addMessage", 500) /\ UNCHANGED issued
                 ELSE /\ Len(messages) < MaxMessages
                      /\ messages' = message.store.messages
                      /\ message_count' = message.store.message_count
                      /\ last_message_at' = message.store.last_message_at
                      /\ resp' = Response("addMessage", sessionId, message.messageIndex,
                                          200, Null, NULL, Null)
                      /\ activity_log' = <<>>
                      /\ UNCHANGED <<projects, sessions, session_shares, issued, revoked,
                                     monitor>>

\* POST /api/sessions/:sessionId/messages; the response carries the
\* messageIndex of the new row (as arg).
AddMessage(userId, sessionId, role, content) ==
    LET session == getSession(sessionId, userId)
    IN  IF ~session.found
        THEN Rejected("addMessage", 404) /\ UNCHANGED issued
        ELSE IF session.user_permission \notin {"view", "comment", "owner"}
        THEN Rejected("addMessage", 403) /\ UNCHANGED issued
        ELSE LET message == addMessage(sessionId, role, content)
             IN  IF message.throws
                 THEN Rejected("addMessage", 500) /\ UNCHANGED issued
                 ELSE /\ Len(messages) < MaxMessages
                      /\ messages' = message.store.messages
                      /\ message_count' = message.store.message_count
                      /\ last_message_at' = message.store.last_message_at
                      /\ resp' = Response("addMessage", sessionId, message.messageIndex,
                                          200, Null, NULL, Null)
                      /\ activity_log' = <<>>
                      /\ UNCHANGED <<projects, sessions, session_shares, issued, revoked,
                                     monitor>>

\* migrateToCloud over one project directory that holds one session file:
\* the project is created for adminUser, then the session (private), then
\* its messages are imported when the file has any; a session whose
\* createSession throws is skipped.  The script answers no request: resp
\* records that it ran.
Migrate(adminUser, sessionId, file) ==
    LET projectId == Len(projects) + 1
        made == createSession(sessionId, projectId, adminUser, "private", NULL)
        imported == bulkImportMessages(Store, sessionId, parseSessionFile(file))
    IN  /\ Len(projects) < MaxProjects
        /\ Len(messages) + Len(file) <= MaxMessages
        /\ projects' = Append(projects, [owner_id |-> adminUser])
        /\ sessions' = IF made.throws THEN sessions ELSE made.sessions
        /\ messages' = IF made.throws THEN messages ELSE imported.messages
        /\ message_count' = IF made.throws THEN message_count
                            ELSE imported.message_count
        /\ last_message_at' = IF made.throws THEN last_message_at
                              ELSE imported.last_message_at
        /\ logActivity(adminUser, "migrate_project", projectId, Null)
        /\ resp' = Response("migrate", sessionId, NULL, IF made.throws THEN 500 ELSE 200,
                            "private", NULL, Null)
        /\ UNCHANGED <<session_shares, issued, revoked, monitor>>

\* The visibilities the sessions of the message specification are created
\* with.
MessageVisibilityInputs == {"private", "public"}

\* The message routes and the migration script, over the sessions and
\* grants the owners create.
NextMsg ==
    \/ \E u \in Users : CreateProject(u)
    \/ \E u \in Users, p \in 1..MaxProjects, s \in SessionIds,
          v \in MessageVisibilityInputs : CreateSession(FALSE, u, p, s, v)
    \/ \E u \in Users, s \in SessionIds, n \in Users, q \in ValidPermission :
          ShareSession(u, s, n, q)
    \/ \E u \in Users, s \in SessionIds, role \in RoleInputs, content \in ContentInputs :
          AddMessage(u, s, role, content)
    \/ \E u \in Users, s \in SessionIds, file \in SessionFiles : Migrate(u, s, file)

SpecMsg == Init /\ [][NextMsg]_vars

\* ---------------------------------------------------------------- claims
\* C1: in every reachable state, each session's visibility is 'private'
\* exactly when its share_token is null.
C1_PrivateIffNoToken ==
    \A s \in DOMAIN sessions :
        (sessions[s].visibility = "private") <=> (sessions[s].share_token = NULL)

\* C1 witness: a setVisibility call has just made a session non-private with
\* a token, while another session is private without one.
C1_Witness ==
    /\ resp.op = "setVisibility" /\ resp.status = 200
    /\ resp.sid \in DOMAIN sessions
    /\ sessions[resp.sid].visibility # "private"
    /\ sessions[resp.sid].share_token # NULL
    /\ \E s \in DOMAIN sessions :
           sessions[s].visibility = "private" /\ sessions[s].share_token = NULL

\* C2: setVisibility(S, 'public') by the owner twice in a row: the second
\* call leaves the stored share_token as it was and returns the token the
\* first call returned.
C2_PublicTwiceSameToken ==
    [][(/\ resp.op = "setVisibility" /\ resp.status = 200
        /\ resp.visibility = "public"
        /\ resp'.op = "setVisibility" /\ resp'.status = 200
        /\ resp'.visibility = "public" /\ resp'.sid = resp.sid)
       => (/\ resp'.shareToken = resp.shareToken
           /\ sessions'[resp.sid].share_token = sessions[resp.sid].share_token)]_vars

\* C3: a change by the owner from 'shared' to 'public' or from 'public' to
\* 'shared' leaves the share_token unchanged, and the token that resolved
\* before the change resolves to the same session after it.
C3_SharedPublicKeepsToken ==
    [][\A s \in DOMAIN sessions, t \in Tokens :
        (/\ resp'.op = "setVisibility" /\ resp'.status = 200 /\ resp'.sid = s
         /\ sessions[s].visibility \in {"shared", "public"}
         /\ resp'.visibility \in {"shared", "public"}
         /\ resp'.visibility # sessions[s].visibility
         /\ sessions' # sessions
         /\ sessions[s].share_token = t)
        => (/\ sessions'[s].share_token = t
            /\ getSessionByShareToken(t)'.id = s)]_vars

\* C4: for setVisibility public -> private -> public in a row on one session
\* by its owner, the token the third call issues differs from the token the
\* first call issued (the generator never repeating a value).
C4_ThirdTokenDiffers ==
    \A s \in SessionIds :
        monitor[s].phase = 3 => monitor[s].last # monitor[s].first

\* C4 witness: the third call of the sequence has just answered with its
\* token.
C4_Witness ==
    \E s \in DOMAIN sessions :
        /\ monitor[s].phase = 3
        /\ resp.op = "setVisibility" /\ resp.status = 200 /\ resp.sid = s
        /\ resp.shareToken = monitor[s].last
        /\ monitor[s].first # NULL

\* C5: a token cleared by a change to 'private' resolves to no session, in
\* that state and in every later one, also once the session is non-private
\* again (the generator never repeating a value).
C5_RevokedTokenDead ==
    \A t \in revoked : ~getSessionByShareToken(t).found

\* C5 witness: a session that lost its token to 'private' is public again
\* under another token.
C5_Witness ==
    \E s \in DOMAIN sessions :
        /\ monitor[s].phase = 3
        /\ monitor[s].first \in revoked
        /\ sessions[s].visibility = "public"
        /\ getSessionByShareToken(sessions[s].share_token).id = s

\* C6: a token lookup returns session S exactly when S.share_token equals
\* the token and S.visibility is not 'private'; it matches at most one
\* session.
C6_TokenLookupExact ==
    \A t \in Tokens :
        /\ Cardinality(TokenMatches(t)) <= 1
        /\ \A s \in DOMAIN sessions :
               (getSessionByShareToken(t).found /\ getSessionByShareToken(t).id = s)
               <=> (sessions[s].share_token = t /\ sessions[s].visibility # "private")

\* C6, for the sessions whose visibility is one of the three valid values:
\* the lookup returns S exactly when S.share_token equals the token and S is
\* not private, and it matches at most one session.
C6_ValidVisibilityLookup ==
    \A t \in Tokens :
        /\ Cardinality(TokenMatches(t)) <= 1
        /\ \A s \in DOMAIN sessions :
               sessions[s].visibility \in ValidVisibility
               => ((getSessionByShareToken(t).found /\ getSessionByShareToken(t).id = s)
                   <=> (sessions[s].share_token = t
                        /\ sessions[s].visibility # "private"))

\* C7: the owner of a session resolves to 'owner', whatever the visibility
\* and whatever share rows exist.
C7_OwnerResolvesOwner ==
    \A s \in DOMAIN sessions : resolve(s, sessions[s].owner_id) = "owner"

\* C7 witness: the owner has just read a private session that has no share
\* row and was answered as owner.
C7_Witness ==
    /\ resp.op = "getMessages" /\ resp.status = 200
    /\ resp.user_permission = "owner"
    /\ resp.sid \in DOMAIN sessions
    /\ sessions[resp.sid].visibility = "private"
    /\ \A r \in session_shares : r.session_id # resp.sid

\* C8: a non-owner holding a share with permission p resolves to p whatever
\* the visibility; on a private session a non-owner without a share resolves
\* to null.
C8_GrantResolvesToGrant ==
    \A s \in DOMAIN sessions :
        \A u \in Users \ {sessions[s].owner_id} :
            /\ \A r \in SharesFor(s, u) : resolve(s, u) = r.permission
            /\ (SharesFor(s, u) = {} /\ sessions[s].visibility = "private")
               => resolve(s, u) = Null

\* C8 witness: a grantee with 'comment' on a public session has just read it
\* and was answered 'comment', while a private session holds no share.
C8_Witness ==
    /\ resp.op = "getMessages" /\ resp.status = 200
    /\ resp.user_permission = "comment"
    /\ resp.sid \in DOMAIN sessions
    /\ sessions[resp.sid].visibility = "public"
    /\ \E s \in DOMAIN sessions :
           \E u \in Users \ {sessions[s].owner_id} :
               /\ sessions[s].visibility = "private"
               /\ SharesFor(s, u) = {}
               /\ resolve(s, u) = Null

\* C9: on a public session the anonymous caller and every non-owner without
\* a grant resolve to 'view'; once the owner has set the session to
\* 'private' the anonymous caller resolves to null.
C9_PublicFloor ==
    \A s \in DOMAIN sessions :
        /\ sessions[s].visibility = "public"
           => /\ resolve(s, NULL) = "view"
              /\ \A u \in Users \ {sessions[s].owner_id} :
                     SharesFor(s, u) = {} => resolve(s, u) = "view"
        /\ (/\ resp.op = "setVisibility" /\ resp.status = 200
            /\ resp.sid = s /\ resp.visibility = "private")
           => resolve(s, NULL) = Null

\* C9 witness: the owner has just set a public session back to 'private'
\* while another session is public.
C9_Witness ==
    /\ resp.op = "setVisibility" /\ resp.status = 200
    /\ resp.visibility = "private"
    /\ activity_log # <<>>
    /\ activity_log[1].metadata.oldVisibility = "public"
    /\ resolve(resp.sid, NULL) = Null
    /\ \E s \in DOMAIN sessions :
           sessions[s].visibility = "public" /\ resolve(s, NULL) = "view"

\* The visibility floor of a session: what a caller without ownership and
\* without a grant resolves to.
Floor(s) == IF sessions[s].visibility = "public" THEN "view" ELSE Null

\* C10: once the owner has called revokeShare(S, B), B resolves to the
\* visibility floor of S only.
C10_RevokeLeavesFloor ==
    [][\A s \in DOMAIN sessions :
        \A u \in Users, n \in Users :
            (/\ sessions[s].owner_id = u /\ n # u
             /\ sessions[s].visibility \in ValidVisibility
             /\ RevokeShare(u, s, n))
            => resolve(s, n)' = Floor(s)']_vars

\* The operations that change sharing state, as the response names them.
MutationOps == {"setVisibility", "shareSession", "revokeShare", "deleteSession"}

\* The step is a request `op` of MutationOps made by `u` on session id `s`.
Mutation(op, u, s) ==
    IF op = "setVisibility"
    THEN \E v \in VisibilityInputs : SetVisibility(FALSE, u, s, v)
    ELSE IF op = "shareSession"
    THEN \E n \in Users \cup {UnknownUser}, q \in PermissionInputs :
            ShareSession(u, s, n, q)
    ELSE IF op = "revokeShare"
    THEN \E n \in Users : RevokeShare(u, s, n)
    ELSE op = "deleteSession" /\ DeleteSession(u, s)

\* C11: a visibility change, share grant, share revocation or session
\* deletion requested by a caller who does not resolve to 'owner' on the
\* session (a grantee, a stranger, or anyone on an id without a row) fails
\* and leaves the sessions and the share rows as they were.  Stated from the
\* other side: a step of one of these requests that is not answered 400, 403
\* or 404 with the sessions and the share rows unchanged is a request of a
\* caller who resolves to 'owner'.
C11_NonOwnerCannotMutate ==
    [][(/\ resp'.op \in MutationOps
        /\ ~(/\ resp'.status \in {400, 403, 404}
             /\ sessions' = sessions
             /\ session_shares' = session_shares))
       => \A u \in Users, s \in SessionIds :
              Mutation(resp'.op, u, s) => resolve(s, u) = "owner"]_vars

\* C11 witness: every session id has a row, every non-owner of every session
\* holds a grant, one of them 'comment', and a request to share has just been
\* refused as unauthorized: it came from a grantee.
C11_Witness ==
    /\ resp.op = "shareSession" /\ resp.status = 403
    /\ DOMAIN sessions = SessionIds
    /\ \A s \in SessionIds :
           \A u \in Users \ {sessions[s].owner_id} : SharesFor(s, u) # {}
    /\ \E r \in session_shares : r.permission = "comment"

\* C12: session or message data is returned only to a caller whose resolved
\* permission is not null, or on a share token that currently matches: a
\* successful read of messages (of a session with a valid visibility) and
\* every entry of a project session list carry a non-null permission, and a
\* successful token lookup answers with the session the token matches.
C12_NoDataWithoutPermission ==
    /\ (/\ resp.op = "getMessages" /\ resp.status = 200
        /\ resp.visibility \in ValidVisibility)
       => resp.user_permission # Null
    /\ resp.op = "listProjectSessions"
       => \A e \in resp.list : e.user_permission # Null
    /\ (resp.op = "getSharedSession" /\ resp.status = 200)
       => TokenMatches(resp.arg) = {resp.sid}

\* A well-formed request `op` on session id `s` by `u`: one of the requests
\* that need a permission on the session.
SessionRequest(op, u, s) ==
    IF op = "getMessages" THEN GetMessages(u, s)
    ELSE IF op = "getSharingInfo" THEN GetSharingInfo(u, s)
    ELSE IF op = "setVisibility"
    THEN \E v \in ValidVisibility : SetVisibility(FALSE, u, s, v)
    ELSE IF op = "shareSession"
    THEN \E n \in Users \ {u}, q \in ValidPermission : ShareSession(u, s, n, q)
    ELSE IF op = "revokeShare"
    THEN \E n \in Users : RevokeShare(u, s, n)
    ELSE op = "deleteSession" /\ DeleteSession(u, s)

\* C13: a request on a private session by a caller who resolves to null is
\* answered 'not found' (404), as a request on an id without a row is, and
\* never 'forbidden'.
C13_PrivateLooksMissing ==
    [][\A u \in Users, s \in DOMAIN sessions :
        (/\ sessions[s].visibility = "private"
         /\ resolve(s, u) = Null
         /\ SessionRequest(resp'.op, u, s))
        => resp'.status = 404]_vars

\* C14: a listing response (public sessions, shared-with-me, project
\* session list) carries a non-null share_token for no entry whose owner is
\* not the caller; the public listing is the same for every caller, so it
\* carries none at all.
C14_ListingsHideTokens ==
    [][/\ resp'.op = "listPublicSessions"
          => \A e \in resp'.list : e.share_token = NULL
       /\ resp'.op \in {"listProjectSessions", "listSharedWithMe"}
          => \A u \in Users :
                 (\/ \E p \in 1..MaxProjects : ListProjectSessions(u, p)
                  \/ ListSharedWithMe(u))
                 => \A e \in resp'.list :
                        e.owner_id # u => e.share_token = NULL]_vars

\* The response discloses the current share token of session s: in the
\* answer about s, or in the public listing, which any caller receives.
Disclosed(s) ==
    /\ sessions[s].share_token # NULL
    /\ \/ resp.sid = s /\ resp.shareToken = sessions[s].share_token
       \/ /\ resp.op = "listPublicSessions"
          /\ \E e \in resp.list : e.id = s /\ e.share_token = sessions[s].share_token

\* C15: the share token of a session is disclosed only in an answer to its
\* owner (sharing info, setVisibility, and the answer to the create request):
\* no other answer about one session carries it, and the answer to the
\* anonymous public listing carries none.
C15_TokenOnlyToOwner ==
    \A s \in DOMAIN sessions :
        Disclosed(s) => resp.op \in {"getSharingInfo", "setVisibility", "createSession"}

\* C15, for the answers about one session: a read of messages and a lookup
\* by token carry no token, and an answer that carries the token of a session
\* is an answer to setVisibility, to sharing info or to the create request,
\* which succeed for the owner only.
C15_SingleSessionPathsStrip ==
    /\ resp.op \in {"getMessages", "getSharedSession"} => resp.shareToken = NULL
    /\ resp.shareToken # NULL
       => resp.op \in {"getSharingInfo", "setVisibility", "createSession"}

\* C16: no two sessions hold the same non-null share_token, and a generated
\* token that collides with a stored one is replaced by another draw, so
\* that setVisibility still succeeds: it never answers with a server error
\* (stated for the states in which every session has a valid visibility).
C16_UniqueAndRetried ==
    /\ \A s1 \in DOMAIN sessions, s2 \in DOMAIN sessions :
           (s1 # s2 /\ sessions[s1].share_token # NULL)
           => sessions[s1].share_token # sessions[s2].share_token
    /\ (/\ resp.op = "setVisibility"
        /\ \A s \in DOMAIN sessions : sessions[s].visibility \in ValidVisibility)
       => resp.status # 500

\* C16, the first half: no two sessions hold the same non-null share_token.
C16_TokensUnique ==
    \A s1 \in DOMAIN sessions, s2 \in DOMAIN sessions :
        (s1 # s2 /\ sessions[s1].share_token # NULL)
        => sessions[s1].share_token # sessions[s2].share_token

\* C17: there is at most one share row per (session, user) in every state,
\* and after a grant, the first or a repeated one, the grantee resolves to
\* the permission just granted.
C17_OneShareRowPerPair ==
    /\ \A s \in SessionIds, u \in Users : Cardinality(SharesFor(s, u)) <= 1
    /\ (resp.op = "shareSession" /\ resp.status = 200)
       => resolve(resp.sid, resp.arg) = resp.user_permission

\* C17 witness: a grant of 'comment' has just replaced a grant of 'view' to
\* the same user on the same session.
C17_Witness ==
    /\ resp.op = "shareSession" /\ resp.status = 200
    /\ resp.prior = "view" /\ resp.user_permission = "comment"
    /\ Cardinality(SharesFor(resp.sid, resp.arg)) = 1
    /\ resolve(resp.sid, resp.arg) = "comment"

\* C18: a share request by the owner is answered 400 when the permission is
\* neither 'view' nor 'comment' or when the target is the caller, and 404
\* when no active user has the target username (the permission being valid);
\* in each case the share rows stay as they were.
C18_ShareArgumentErrors ==
    [][resp'.op = "shareSession"
       => \A u \in Users, s \in SessionIds :
              resolve(s, u) = "owner"
              => \A n \in Users \cup {UnknownUser}, q \in PermissionInputs :
                     (/\ q \notin ValidPermission \/ n = u \/ n \notin Users
                      /\ ShareSession(u, s, n, q))
                     => /\ session_shares' = session_shares
                        /\ resp'.status = IF q \notin ValidPermission \/ n = u
                                          THEN 400 ELSE 404]_vars

\* C18 witness: a share request has just been answered 'user not found',
\* which only a request of the owner with a valid permission is, while share
\* rows exist.
C18_Witness ==
    /\ resp.op = "shareSession" /\ resp.status = 404
    /\ session_shares # {}

\* C19: a revoke by the owner removes the share row of (S, U) and no other
\* and is answered 200 when that row exists; it is answered 404 and changes
\* nothing when there is none.
C19_RevokeRemovesExactlyOne ==
    [][resp'.op = "revokeShare"
       => \A u \in Users, s \in SessionIds :
              resolve(s, u) = "owner"
              => \A n \in Users :
                     RevokeShare(u, s, n)
                     => IF SharesFor(s, n) # {}
                        THEN /\ resp'.status = 200
                             /\ session_shares' = session_shares \ SharesFor(s, n)
                        ELSE /\ resp'.status = 404
                             /\ session_shares' = session_shares]_vars

C21_PublicListingOnlyPublic ==
    /\ \A e \in getPublicSessions :
           /\ e.id \in DOMAIN sessions
           /\ sessions[e.id].visibility = "public"
    /\ (resp.op = "listPublicSessions" /\ resp.status = 200) =>
           \A e \in resp.list :
               /\ e.id \in DOMAIN sessions
               /\ sessions[e.id].visibility = "public"
               /\ e.visibility = "public"

\* A public listing answered with one session on it while another session,
\* made public and then private again by its owner, is left off it.
C21_Witness ==
    /\ resp.op = "listPublicSessions"
    /\ resp.status = 200
    /\ resp.list # {}
    /\ \E s \in DOMAIN sessions :
           /\ monitor[s].phase = 2
           /\ sessions[s].visibility = "private"
           /\ \A e \in resp.list : e.id # s

\* ---------------------------------------------------------------- C22
\* C22: GET /shared-with-me for user U answers 200 with exactly the
\* sessions that hold a session_shares row for U, whatever their
\* visibility: a session is on it after a grant to U and off it after the
\* revoke.
C22_SharedWithMeListsGrants ==
    [][resp'.op = "listSharedWithMe" =>
          \A u \in Users :
              ListSharedWithMe(u) =>
                  /\ resp'.status = 200
                  /\ {e.id : e \in resp'.list}
                         = {s \in DOMAIN sessions : SharesFor(s, u) # {}}]_vars

\* ---------------------------------------------------------------- C23
\* C23: on every listing page answered, hasMore is true exactly when the
\* number of rows returned equals the limit of the response: true when the
\* last page fills the limit exactly, false when fewer rows are returned.
C23_HasMoreIffFull ==
    (resp.status = 200 /\ resp.op \in {"listPublicSessions", "listProjectSessions"}) =>
        (resp.pagination.hasMore <=> Cardinality(resp.list) = resp.pagination.limit)

\* A page that holds every public session there is and fills its limit
\* exactly: hasMore is true although no further row exists.
C23_Witness ==
    /\ resp.op = "listPublicSessions"
    /\ resp.status = 200
    /\ resp.pagination.hasMore
    /\ resp.pagination.offset = 0
    /\ resp.list # {}
    /\ resp.list = getPublicSessions

\* ---------------------------------------------------------------- C24
\* The operations that write an audit entry and that the claim names.
AuditedOps == {"setVisibility", "shareSession", "revokeShare", "getSharedSession"}

\* C24: a failed audit write never surfaces.  A request of an audited
\* operation that is answered with an error has changed no table; one that
\* is answered 200 with no audit row written (the insert failed) has its
\* state change stored and its normal response; and a view by a token that
\* matches a session is answered 200 whether or not the audit row is
\* written.
C24_AuditFailureSwallowed ==
    [][resp'.op \in AuditedOps =>
          /\ resp'.status # 200 =>
                 /\ sessions' = sessions
                 /\ session_shares' = session_shares
          /\ (resp'.status = 200 /\ activity_log' = <<>>) =>
                 /\ resp'.sid \in DOMAIN sessions'
                 /\ resp'.op = "setVisibility" =>
                        /\ sessions'[resp'.sid].visibility = resp'.visibility
                        /\ sessions'[resp'.sid].share_token = resp'.shareToken
                 /\ resp'.op = "shareSession" =>
                        \E r \in session_shares' :
                            /\ r.session_id = resp'.sid
                            /\ r.shared_with_user_id = resp'.arg
                            /\ r.permission = resp'.user_permission
                 /\ resp'.op = "getSharedSession" =>
                        resp'.visibility = sessions[resp'.sid].visibility
          /\ resp'.op = "getSharedSession" =>
                 \A t \in Tokens :
                     (getSessionByShareToken(t).found /\ GetSharedSession(t))
                         => resp'.status = 200]_vars

\* A grant answered 200 whose audit insert failed: no audit row, and the
\* share row is stored.
C24_Witness ==
    /\ resp.op = "shareSession"
    /\ resp.status = 200
    /\ activity_log = <<>>
    /\ \E r \in session_shares :
           /\ r.session_id = resp.sid
           /\ r.shared_with_user_id = resp.arg
           /\ r.permission = resp.user_permission

\* ---------------------------------------------------------------- C28
\* C28: no session_shares row names the owner of its session as the user
\* the session is shared with, and every row belongs to a session that
\* exists.
C28_NoShareToOwner ==
    \A r \in session_shares :
        /\ r.session_id \in DOMAIN sessions
        /\ r.shared_with_user_id # sessions[r.session_id].owner_id

\* A grant has been stored: its row names a user other than the owner,
\* who made the grant.
C28_Witness ==
    /\ resp.op = "shareSession"
    /\ resp.status = 200
    /\ \E r \in session_shares :
           /\ r.session_id = resp.sid
           /\ r.shared_with_user_id = resp.arg
           /\ r.shared_by_user_id = sessions[resp.sid].owner_id
           /\ r.shared_with_user_id # sessions[resp.sid].owner_id

\* ---------------------------------------------------------------- C27
\* C27: requests run one after another in any order (no handler yields
\* before it answers), and each setVisibility writes visibility and
\* share_token in one UPDATE.  So after every step the stored pair of a
\* session is either what it was or the pair a successful setVisibility on
\* that session has just written and returned, with the token null exactly
\* when the visibility is 'private' and, for a non-private visibility, a
\* token other than the previous one; a successful setVisibility leaves
\* exactly the pair it returns; and a setVisibility answered with an error
\* leaves the row as it was.  The pair left by two requests is the pair of
\* the one that ran last.
C27_LastVisibilityWriteWins ==
    [][/\ \A s \in DOMAIN sessions :
              (/\ s \in DOMAIN sessions'
               /\ \/ sessions'[s].visibility # sessions[s].visibility
                  \/ sessions'[s].share_token # sessions[s].share_token)
                  => /\ resp'.op = "setVisibility"
                     /\ resp'.status = 200
                     /\ resp'.sid = s
                     /\ sessions'[s].visibility = "private"
                            <=> sessions'[s].share_token = NULL
                     /\ sessions'[s].visibility # "private"
                            => sessions'[s].share_token # sessions[s].share_token
       /\ resp'.op = "setVisibility" =>
              IF resp'.status = 200
              THEN /\ resp'.sid \in DOMAIN sessions'
                   /\ sessions'[resp'.sid].visibility = resp'.visibility
                   /\ sessions'[resp'.sid].share_token = resp'.shareToken
              ELSE sessions' = sessions]_vars

\* The owner's third setVisibility in a row on one session (public, private,
\* public) has been answered: the row holds the pair of this last request,
\* with a token other than the one the first request wrote.
C27_Witness ==
    /\ resp.op = "setVisibility"
    /\ resp.status = 200
    /\ monitor[resp.sid].phase = 3
    /\ sessions[resp.sid].visibility = "public"
    /\ sessions[resp.sid].share_token = resp.shareToken
    /\ sessions[resp.sid].share_token # monitor[resp.sid].first

\* ---------------------------------------------------------------- C30
\* C30 as the claim states it: every successful visibility change, grant,
\* revoke and view by share token leaves exactly one audit entry.
C30_ExactlyOneAuditEntry ==
    (resp.op \in AuditedOps /\ resp.status = 200) => Len(activity_log) = 1

\* The action name each audited operation logs.
AuditAction(op) ==
    IF op = "setVisibility" THEN "update_session_visibility"
    ELSE IF op = "shareSession" THEN "share_session"
    ELSE IF op = "revokeShare" THEN "remove_session_share"
    ELSE "view_shared_session"

\* C30, amended: a request answered with an error writes no audit entry; a
\* request writes at most one entry (none when the audit insert fails); and
\* an entry written by an audited operation is there only with the
\* operation answered 200 and its change stored, is about the session of the
\* response, and names the acting user: the owner of the session for a
\* visibility change, a grant and a revoke, no user for a view by share
\* token.
C30_AuditOnlyAfterSuccess ==
    /\ Len(activity_log) <= 1
    /\ resp.status # 200 => activity_log = <<>>
    /\ (resp.op \in AuditedOps /\ activity_log # <<>>) =>
           LET entry == activity_log[1]
           IN  /\ resp.status = 200
               /\ resp.sid \in DOMAIN sessions
               /\ entry.action = AuditAction(resp.op)
               /\ entry.resource_id = resp.sid
               /\ entry.user_id = IF resp.op = "getSharedSession"
                                  THEN NULL
                                  ELSE sessions[resp.sid].owner_id
               /\ resp.op = "setVisibility" =>
                      /\ sessions[resp.sid].visibility = resp.visibility
                      /\ sessions[resp.sid].share_token = resp.shareToken
                      /\ entry.metadata.newVisibility = resp.visibility
               /\ resp.op = "shareSession" =>
                      \E r \in session_shares :
                          /\ r.session_id = resp.sid
                          /\ r.shared_with_user_id = resp.arg
                          /\ r.permission = resp.user_permission
                          /\ r.shared_by_user_id = entry.user_id

\* A visibility change answered 200 with its one audit entry, which names
\* the owner and the new visibility the row now holds.
C30_Witness ==
    /\ resp.op = "setVisibility"
    /\ resp.status = 200
    /\ Len(activity_log) = 1
    /\ activity_log[1].user_id = sessions[resp.sid].owner_id
    /\ activity_log[1].metadata.newVisibility = sessions[resp.sid].visibility
    /\ activity_log[1].metadata.oldVisibility # sessions[resp.sid].visibility

\* ---------------------------------------------------------------- C25
\* C25: in every session, each message_index addMessage assigned is greater
\* than the index of every row of the session inserted before it, imported
\* rows included: the assigned indexes grow strictly in append order, and
\* none is held by two rows.
C25_IndexesStrictlyIncrease ==
    \A j \in 1..Len(messages), i \in 1..Len(messages) :
        (/\ i < j
         /\ messages[i].session_id = messages[j].session_id
         /\ messages[j].via = "addMessage")
            => messages[j].message_index > messages[i].message_index

\* Two appends after an import of one message: the session holds indexes
\* 0 (imported), 1 and 2 (appended), the last one just returned.
C25_Witness ==
    /\ resp.op = "addMessage"
    /\ resp.status = 200
    /\ resp.arg = 2
    /\ \E i \in 1..Len(messages) :
           /\ messages[i].session_id = resp.sid
           /\ messages[i].via = "bulkImportMessages"
    /\ Cardinality({i \in 1..Len(messages) :
                       /\ messages[i].session_id = resp.sid
                       /\ messages[i].via = "addMessage"}) = 2

\* ---------------------------------------------------------------- C26
\* The positions of the rows of a session in the messages table.
RowsOf(sessionId) ==
    {i \in 1..Len(messages) : messages[i].session_id = sessionId}

\* C26: in every state, message_count of each session is the number of
\* messages rows of the session, and last_message_at is the timestamp of
\* the row of the session inserted last (NULL while it has none): an insert
\* and the update of both columns are one step.
C26_CountMatchesRows ==
    \A s \in SessionIds :
        /\ message_count[s] = Cardinality(RowsOf(s))
        /\ last_message_at[s] =
               IF RowsOf(s) = {} THEN NULL
               ELSE messages[CHOOSE i \in RowsOf(s) : \A k \in RowsOf(s) : k <= i].timestamp

\* An append has just been answered for a session that now counts two
\* messages, the other session having a count of its own.
C26_Witness ==
    /\ resp.op = "addMessage"
    /\ resp.status = 200
    /\ message_count[resp.sid] = 2
    /\ last_message_at[resp.sid] = messages[Len(messages)].timestamp
    /\ messages[Len(messages)].session_id = resp.sid
    /\ \E s \in SessionIds \ {resp.sid} : message_count[s] = 1

\* ---------------------------------------------------------------- C29
\* C29: for a session that exists and a body with a valid role and a
\* content, POST messages is answered 200 exactly when the caller resolves
\* to 'view', 'comment' or 'owner' on the session, and then one row is
\* added to it; a caller who resolves to no permission is answered 403 and
\* the messages table, message_count and last_message_at stay as they were.
C29_AppendNeedsPermission ==
    [][resp'.op = "addMessage" =>
          \A u \in Users, s \in DOMAIN sessions :
              AddMessage(u, s, "user", "text") =>
                  IF resolve(s, u) \in {"view", "comment", "owner"}
                  THEN /\ resp'.status = 200
                       /\ Len(messages') = Len(messages) + 1
                       /\ messages'[Len(messages')].session_id = s
                       /\ message_count'[s] = message_count[s] + 1
                  ELSE /\ resolve(s, u) = Null
                       /\ resp'.status = 403
                       /\ UNCHANGED messageVars]_vars

\* An append by a user who holds a 'view' grant on a private session has
\* been accepted, while the other session, private and not shared with
\* that user, is closed to them.
C29_Witness ==
    /\ resp.op = "addMessage"
    /\ resp.status = 200
    /\ sessions[resp.sid].visibility = "private"
    /\ \E u \in Users :
           /\ resolve(resp.sid, u) = "view"
           /\ u # sessions[resp.sid].owner_id
           /\ \E s \in DOMAIN sessions : resolve(s, u) = Null
    /\ message_count[resp.sid] >= 1

============================================================================
